---- MODULE Spec2Model ----
(***************************************************************************)
(* State-machine model of the three workload simulators of the repository: *)
(*   - IntelligentConnectivitySim (intelligent_connectivity_prototype.cpp) *)
(*   - VoiceRecognitionSim        (unnamed/part_000)                       *)
(*   - BiometricSecuritySim       (unnamed/part_001)                       *)
(* Each is a separate executable; a behaviour of Spec is a run of one of   *)
(* them, selected by the variable prog in the initial state.               *)
(*                                                                         *)
(* Numbers that are float in the source are fixed-point integers here:     *)
(* vector elements are counted in tenths (0.1f is 1), their products and   *)
(* sums in hundredths (0.85f is 85).  A float quotient is kept as the pair *)
(* [num, den]; den = 0 stands for the 0/0 the source would compute.        *)
(* Rounding of float arithmetic is not modelled.                           *)
(***************************************************************************)
EXTENDS Integers, Sequences, FiniteSets, TLC

VARIABLES
    prog,              \* which executable runs: "connectivity", "voice", "biometric"
    pc,                \* position of main: "menu", a scenario loop, or "done"
    choice,            \* int choice of main (last selection read)
    exitCode,          \* -1 while running, else the value main returned
    out,               \* kind of the last block printed to std::cout
    idx,               \* loop index of the scenario being run (0 in the menu)
    \* IntelligentConnectivitySim
    trustedDevices,    \* std::vector<std::string> trustedDevices
    policyRules,       \* std::map<std::string, NetworkPolicy> policyRules
    env,               \* what the last testEnvironment call computed and printed
    battery,           \* what the last power mode of testBatteryOptimization printed
    \* BiometricSecuritySim
    userDatabase,      \* std::map<std::string, UserProfile> userDatabase
    nearbyDevices,     \* std::vector<std::string> nearbyDevices
    auth,              \* what the last authenticateUser call did and printed
    successCount,      \* stressTest's successCount
    \* VoiceRecognitionSim
    keywordModels,     \* std::vector<std::vector<float>> keywordModels
    audioBuffer,       \* std::vector<float> audioBuffer
    frame,             \* what the last processed frame / test printed
    latencyViolations, \* testRealTimeProcessing's latencyViolations
    detections,        \* testKeywordDetection's detections
    \* direct calls of the private member functions (unit specifications)
    call               \* the last direct call: its arguments and its result

vars == <<prog, pc, choice, exitCode, out, idx, trustedDevices, policyRules, env,
          battery, userDatabase, nearbyDevices, auth, successCount, keywordModels,
          audioBuffer, frame, latencyViolations, detections, call>>

connVars == <<trustedDevices, policyRules, env, battery>>
bioVars == <<userDatabase, nearbyDevices, auth, successCount>>
voiceVars == <<keywordModels, audioBuffer, frame, latencyViolations, detections>>

(***************************************************************************)
(* Helpers for std::vector, std::string and std::map                       *)
(***************************************************************************)

Range(s) == {s[i] : i \in 1..Len(s)}

Min(a, b) == IF a < b THEN a ELSE b

Abs(x) == IF x < 0 THEN -x ELSE x

\* std::string::find(pat) != npos
Contains(name, pat) ==
    \E i \in 1..(Len(name) - Len(pat) + 1) : SubSeq(name, i, i + Len(pat) - 1) = pat

\* std::map::operator[]: a missing key is inserted with a value-initialized value
MapIndex(m, key, dflt) == IF key \in DOMAIN m THEN m ELSE m @@ (key :> dflt)

(***************************************************************************)
(* IntelligentConnectivitySim                                              *)
(***************************************************************************)

Policy(level, pin, limit, type) ==
    [securityLevel |-> level, requirePIN |-> pin, dataLimit |-> limit,
     connectionType |-> type]

\* a value-initialized NetworkPolicy
DefaultPolicy == Policy("", FALSE, 0, "")

initializePolicies ==
    ("home_trusted" :> Policy("LOW", FALSE, 1000, "FULL_ACCESS")) @@
    ("public_trusted" :> Policy("MEDIUM", TRUE, 500, "LIMITED_ACCESS")) @@
    ("untrusted" :> Policy("HIGH", TRUE, 100, "RESTRICTED")) @@
    ("emergency" :> Policy("CRITICAL", TRUE, 50, "EMERGENCY_ONLY"))

\* mutant: smart_tv takes the place of personal_tablet in the trusted list
initializeTrustedDevicesWithTv == <<"home_wifi", "office_bt", "car_system", "smart_tv">>

initializeTrustedDevices == <<"home_wifi", "office_bt", "car_system", "personal_tablet">>

\* mutant: the cellular backup is not appended
scanNetworksNoBackup(location) ==
    IF location = "Home" THEN <<"Home_WiFi_5G", "Home_WiFi_2G", "Neighbor_WiFi">>
    ELSE IF location = "Office" THEN <<"Office_Secure", "Office_Guest", "Conference_Room">>
    ELSE IF location = "Public Cafe" THEN <<"Cafe_Free_WiFi", "Cafe_Premium", "Public_Hotspot">>
    ELSE IF location = "Shopping Mall" THEN <<"Mall_Free", "Store_WiFi", "FoodCourt_Network">>
    ELSE IF location = "Airport" THEN <<"Airport_Free", "Airport_Premium", "Airline_Lounge">>
    ELSE <<"Cellular_4G", "Cellular_3G">>

scanNetworks(location) ==
    (IF location = "Home" THEN <<"Home_WiFi_5G", "Home_WiFi_2G", "Neighbor_WiFi">>
     ELSE IF location = "Office" THEN <<"Office_Secure", "Office_Guest", "Conference_Room">>
     ELSE IF location = "Public Cafe" THEN <<"Cafe_Free_WiFi", "Cafe_Premium", "Public_Hotspot">>
     ELSE IF location = "Shopping Mall" THEN <<"Mall_Free", "Store_WiFi", "FoodCourt_Network">>
     ELSE IF location = "Airport" THEN <<"Airport_Free", "Airport_Premium", "Airline_Lounge">>
     ELSE <<"Cellular_4G", "Cellular_3G">>)
    \o <<"Cellular_Data">>

\* the values of std::uniform_int_distribution<int> dis(0, 3)
Dis == 0..3

\* r1, r2, r3: the successive values of dis(gen); the "Home" and "Office"
\* branches draw three times, every other location twice (r1, r2)
scanDevices(location, r1, r2, r3) ==
    IF location = "Home" THEN
        <<"home_wifi", "smart_tv">>
        \o (IF r1 > 1 THEN <<"car_system">> ELSE <<>>)
        \o (IF r2 > 0 THEN <<"unknown_device_1">> ELSE <<>>)
        \o (IF r3 > 1 THEN <<"strange_bt_device">> ELSE <<>>)
    ELSE IF location = "Office" THEN
        <<"office_bt">>
        \o (IF r1 > 1 THEN <<"printer_01">> ELSE <<>>)
        \o (IF r2 > 0 THEN <<"unknown_device_1">> ELSE <<>>)
        \o (IF r3 > 1 THEN <<"strange_bt_device">> ELSE <<>>)
    ELSE
        (IF r1 > 0 THEN <<"unknown_device_1">> ELSE <<>>)
        \o (IF r2 > 1 THEN <<"strange_bt_device">> ELSE <<>>)

\* the inner loop of evaluateTrustLevel: does some trusted entry equal device
isTrustedDevice(device, trusted) == \E j \in 1..Len(trusted) : device = trusted[j]

RECURSIVE countLoop(_, _, _, _)
\* the outer loop of evaluateTrustLevel from index i on, trustedCount so far n
countLoop(devices, trusted, i, n) ==
    IF i > Len(devices) THEN n
    ELSE countLoop(devices, trusted, i + 1,
                   IF isTrustedDevice(devices[i], trusted) THEN n + 1 ELSE n)

\* mutant: the scan starts at the second device
trustedCountSkipFirst(devices, trusted) == countLoop(devices, trusted, 2, 0)

\* int trustedCount after the loops of evaluateTrustLevel
trustedCount(devices, trusted) == countLoop(devices, trusted, 1, 0)

\* mutant: the "Rural Area" rule is tested before the trusted-device rule
trustLevelRuralFirst(location, n) ==
    IF location = "Home" /\ n >= 2 THEN "home_trusted"
    ELSE IF location = "Office" /\ n >= 1 THEN "public_trusted"
    ELSE IF location = "Rural Area" THEN "emergency"
    ELSE IF n >= 1 THEN "public_trusted"
    ELSE "untrusted"

\* the decision chain of evaluateTrustLevel on trustedCount = n
trustLevelOf(location, n) ==
    IF location = "Home" /\ n >= 2 THEN "home_trusted"
    ELSE IF location = "Office" /\ n >= 1 THEN "public_trusted"
    ELSE IF n >= 1 THEN "public_trusted"
    ELSE IF location = "Rural Area" THEN "emergency"
    ELSE "untrusted"

evaluateTrustLevel(devices, location, trusted) ==
    trustLevelOf(location, trustedCount(devices, trusted))

\* mutant: the looked-up entry is marked as applied (PIN forced on) in the table
applyPolicyMarking(rules, trustLevel, location) ==
    LET r == MapIndex(rules, trustLevel, DefaultPolicy)
    IN  [policy |-> r[trustLevel],
         rules |-> [r EXCEPT ![trustLevel].requirePIN = TRUE]]

\* mutant: the data limit is halved away from "Home"
applyPolicyByLocation(rules, trustLevel, location) ==
    LET r == MapIndex(rules, trustLevel, DefaultPolicy)
    IN  [policy |-> IF location = "Home" THEN r[trustLevel]
                    ELSE [r[trustLevel] EXCEPT !.dataLimit = @ \div 2],
         rules |-> r]

\* applyPolicy: the returned NetworkPolicy and policyRules after operator[]
applyPolicy(rules, trustLevel, location) ==
    LET r == MapIndex(rules, trustLevel, DefaultPolicy)
    IN  [policy |-> r[trustLevel], rules |-> r]

\* mutant: MEDIUM looks only for "Secure"
decisionForSecureOnly(network, level) ==
    IF level = "LOW" THEN "FULL"
    ELSE IF level = "MEDIUM" THEN
        (IF Contains(network, "Secure") THEN "LIMITED" ELSE "AVOID")
    ELSE IF level = "HIGH" THEN
        (IF network = "Cellular_Data" THEN "RESTRICTED" ELSE "BLOCKED")
    ELSE
        (IF network = "Cellular_Data" THEN "EMERGENCY" ELSE "BLOCKED")

\* the body of the loop of makeConnectivityDecisions: the line printed for network
decisionFor(network, level) ==
    IF level = "LOW" THEN "FULL"
    ELSE IF level = "MEDIUM" THEN
        (IF Contains(network, "Secure") \/ Contains(network, "Office")
         THEN "LIMITED" ELSE "AVOID")
    ELSE IF level = "HIGH" THEN
        (IF network = "Cellular_Data" THEN "RESTRICTED" ELSE "BLOCKED")
    ELSE
        (IF network = "Cellular_Data" THEN "EMERGENCY" ELSE "BLOCKED")

RECURSIVE decisionLoop(_, _, _, _)
\* the range-for of makeConnectivityDecisions from index i on, lines printed so far
decisionLoop(networks, policy, i, printed) ==
    IF i > Len(networks) THEN printed
    ELSE decisionLoop(networks, policy, i + 1,
                      Append(printed, [network |-> networks[i],
                                       decision |-> decisionFor(networks[i],
                                                                policy.securityLevel)]))

makeConnectivityDecisions(networks, policy) == decisionLoop(networks, policy, 1, <<>>)

\* the lists scanDevices(location) returns over all outcomes of its draws
scanResults(location) ==
    {scanDevices(location, r1, r2, r3) : r1 \in Dis, r2 \in Dis, r3 \in Dis}

\* the 5 ms limit of testEnvironment, in microseconds
SlowDecisionUs == 5000

\* measured durations of one decision: at the limit and just above it
DecisionTimes == {SlowDecisionUs, SlowDecisionUs + 1}

NoEnv ==
    [location |-> "", networks |-> <<>>, devices |-> <<>>, trustLevel |-> "",
     policy |-> DefaultPolicy, decisions |-> <<>>, duration |-> 0, slow |-> FALSE]

\* testEnvironment(location): scans, evaluates, applies the policy, decides, times
testEnvironment(location) ==
    \E devices \in scanResults(location), d \in DecisionTimes :
        LET availableNetworks == scanNetworks(location)
            trustLevel == evaluateTrustLevel(devices, location, trustedDevices)
            applied == applyPolicy(policyRules, trustLevel, location)
        IN  /\ policyRules' = applied.rules
            /\ env' = [location |-> location,
                       networks |-> availableNetworks,
                       devices |-> devices,
                       trustLevel |-> trustLevel,
                       policy |-> applied.policy,
                       decisions |-> makeConnectivityDecisions(availableNetworks,
                                                               applied.policy),
                       duration |-> d,
                       slow |-> d > SlowDecisionUs]
            /\ UNCHANGED trustedDevices

scenarios == <<"Home", "Office", "Public Cafe", "Shopping Mall", "Airport", "Rural Area">>

powerModes == <<"HIGH_POWER", "BALANCED", "LOW_POWER", "ULTRA_SAVE">>

scanIntensityOf(mode) ==
    IF mode = "HIGH_POWER" THEN 4
    ELSE IF mode = "BALANCED" THEN 2
    ELSE IF mode = "LOW_POWER" THEN 1
    ELSE 0

NoBattery ==
    [mode |-> "", scanIntensity |-> 0, networksFound |-> 0, devicesFound |-> 0,
     impact |-> 0]

\* one iteration of the power-mode loop of testBatteryOptimization; every scan
\* replaces the lists, so the last scan's sizes are the ones printed
batteryMode(mode) ==
    \E devices \in scanResults("Test") :
        LET n == scanIntensityOf(mode)
        IN  battery' = [mode |-> mode,
                        scanIntensity |-> n,
                        networksFound |-> IF n > 0 THEN Len(scanNetworks("Test")) ELSE 0,
                        devicesFound |-> IF n > 0 THEN Len(devices) ELSE 0,
                        impact |-> n * 10]

(***************************************************************************)
(* main of the three programs: do { displayMenu(); cin >> choice;          *)
(* switch(choice) ... } while(choice != exit); return 0;                   *)
(***************************************************************************)

\* the largest selection tried; selections are drawn from -1 .. MaxSelection
MaxSelection == 8

Selections == (-1)..MaxSelection

\* the selection that ends the loop: while(choice != 7), (!= 4), (!= 5)
ExitChoice(p) ==
    IF p = "connectivity" THEN 7 ELSE IF p = "voice" THEN 4 ELSE 5

\* mutant: the loop goes on only below the exit selection
LoopContinuesBelow(p, c) == c < ExitChoice(p)

\* the condition of the do-while
LoopContinues(p, c) == c # ExitChoice(p)

\* the end of the switch: the do-while condition, then the menu again or return 0
AfterSwitch(c) ==
    /\ pc' = IF LoopContinues(prog, c) THEN "menu" ELSE "done"
    /\ exitCode' = IF LoopContinues(prog, c) THEN -1 ELSE 0
    /\ idx' = 0

\* displayMenu(); std::cin >> choice; in program p, reading c
Read(p, c) ==
    /\ prog = p
    /\ pc = "menu"
    /\ c \in Selections
    /\ choice' = c
    /\ UNCHANGED <<prog, call>>

\* default: of the switch of the connectivity main
ConnDefault == out' = "invalid" /\ UNCHANGED <<trustedDevices, policyRules, env>>

ConnHome ==
    /\ Read("connectivity", 1)
    /\ testEnvironment("Home")
    /\ out' = "testEnvironment"
    /\ AfterSwitch(1)
    /\ UNCHANGED <<battery, bioVars, voiceVars>>

ConnOffice ==
    /\ Read("connectivity", 2)
    /\ testEnvironment("Office")
    /\ out' = "testEnvironment"
    /\ AfterSwitch(2)
    /\ UNCHANGED <<battery, bioVars, voiceVars>>

ConnPublic ==
    /\ Read("connectivity", 3)
    /\ testEnvironment("Public Cafe")
    /\ out' = "testEnvironment"
    /\ AfterSwitch(3)
    /\ UNCHANGED <<battery, bioVars, voiceVars>>

\* case 4: testMultipleScenarios prints its header and enters its loop
ConnMultiStart ==
    /\ Read("connectivity", 4)
    /\ out' = "testMultipleScenarios"
    /\ pc' = "multi"
    /\ idx' = 1
    /\ UNCHANGED <<exitCode, connVars, bioVars, voiceVars>>

\* one iteration of the loop of testMultipleScenarios
ConnMultiStep ==
    /\ prog = "connectivity"
    /\ pc = "multi"
    /\ testEnvironment(scenarios[idx])
    /\ out' = "testEnvironment"
    /\ IF idx < Len(scenarios)
       THEN idx' = idx + 1 /\ UNCHANGED <<pc, exitCode>>
       ELSE AfterSwitch(choice)
    /\ UNCHANGED <<prog, choice, call, battery, bioVars, voiceVars>>

\* case 5: testBatteryOptimization prints its header and enters its loop
ConnBatteryStart ==
    /\ Read("connectivity", 5)
    /\ out' = "testBatteryOptimization"
    /\ pc' = "battery"
    /\ idx' = 1
    /\ UNCHANGED <<exitCode, connVars, bioVars, voiceVars>>

ConnBatteryStep ==
    /\ prog = "connectivity"
    /\ pc = "battery"
    /\ batteryMode(powerModes[idx])
    /\ out' = "powerMode"
    /\ IF idx < Len(powerModes)
       THEN idx' = idx + 1 /\ UNCHANGED <<pc, exitCode>>
       ELSE AfterSwitch(choice)
    /\ UNCHANGED <<prog, choice, call, trustedDevices, policyRules, env, bioVars,
                   voiceVars>>

ConnInfo ==
    /\ Read("connectivity", 6)
    /\ out' = "showWorkloadInfo"
    /\ AfterSwitch(6)
    /\ UNCHANGED <<connVars, bioVars, voiceVars>>

ConnExit ==
    /\ Read("connectivity", 7)
    /\ out' = "exit"
    /\ AfterSwitch(7)
    /\ UNCHANGED <<connVars, bioVars, voiceVars>>

ConnInvalid ==
    /\ \E c \in Selections \ (1..7) :
          /\ Read("connectivity", c)
          /\ AfterSwitch(c)
    /\ ConnDefault
    /\ UNCHANGED <<battery, bioVars, voiceVars>>

ConnNext ==
    \/ ConnHome
    \/ ConnOffice
    \/ ConnPublic
    \/ ConnMultiStart
    \/ ConnMultiStep
    \/ ConnBatteryStart
    \/ ConnBatteryStep
    \/ ConnInfo
    \/ ConnExit
    \/ ConnInvalid

(***************************************************************************)
(* BiometricSecuritySim                                                    *)
(***************************************************************************)

UserProfile(voice, pin, devices) ==
    [voicePrintHash |-> voice, pin |-> pin, trustedDevices |-> devices]

\* a value-initialized UserProfile
DefaultProfile == UserProfile("", "", <<>>)

initializeUserDatabase ==
    ("thabo" :> UserProfile("voice_hash_1234", "5678", <<"home_bt", "car_bt">>)) @@
    ("matseliso" :> UserProfile("voice_hash_5678", "1234", <<"office_wifi">>)) @@
    ("ntate_john" :> UserProfile("voice_hash_9012", "4321", <<"home_bt", "personal_device">>))

scanNearbyDevices == <<"home_bt", "unknown_device", "office_wifi", "car_bt">>

\* values of std::uniform_real_distribution<float> dis(0.0f, 1.0f), in hundredths:
\* both sides of each of the thresholds 0.2f, 0.3f and 0.4f
UniformDraws == {0, 20, 21, 30, 31, 40, 41, 99}

authenticateVoice(r) == r > 30

verifyPIN(r) == r > 20

quickAuthTest(r) == r > 40

isTrustedEnvironment(profile, nearby) ==
    \E i \in 1..Len(profile.trustedDevices) :
        \E j \in 1..Len(nearby) : profile.trustedDevices[i] = nearby[j]

\* mutant: the lookup guard is gone, every identifier goes on to operator[]
userFoundAlways(db, userId) == TRUE

\* userDatabase.find(userId) != userDatabase.end()
userFound(db, userId) == userId \in DOMAIN db

\* mutant: a trusted environment passes the attempt without the PIN fallback
authOutcomeTrustedPasses(voiceAuth, trustedEnvironment, pinResult) ==
    IF voiceAuth /\ trustedEnvironment THEN
        [authenticated |-> TRUE, authMethod |-> "Voice",
         contextInfo |-> " (Trusted Environment)", pinChecked |-> FALSE,
         pinResult |-> FALSE]
    ELSE IF voiceAuth \/ trustedEnvironment THEN
        [authenticated |-> TRUE, authMethod |-> "Voice", contextInfo |-> "",
         pinChecked |-> FALSE, pinResult |-> FALSE]
    ELSE
        [authenticated |-> pinResult, authMethod |-> "PIN", contextInfo |-> "",
         pinChecked |-> TRUE, pinResult |-> pinResult]

\* mutant: the "else if(voiceAuth)" branch is missing
authOutcomeNoVoiceOnly(voiceAuth, trustedEnvironment, pinResult) ==
    IF voiceAuth /\ trustedEnvironment THEN
        [authenticated |-> TRUE, authMethod |-> "Voice",
         contextInfo |-> " (Trusted Environment)", pinChecked |-> FALSE,
         pinResult |-> FALSE]
    ELSE
        [authenticated |-> pinResult, authMethod |-> "PIN", contextInfo |-> "",
         pinChecked |-> TRUE, pinResult |-> pinResult]

\* the if / else if / else of authenticateUser; pinResult is what verifyPIN
\* returns when it is called
authOutcome(voiceAuth, trustedEnvironment, pinResult) ==
    IF voiceAuth /\ trustedEnvironment THEN
        [authenticated |-> TRUE, authMethod |-> "Voice",
         contextInfo |-> " (Trusted Environment)", pinChecked |-> FALSE,
         pinResult |-> FALSE]
    ELSE IF voiceAuth THEN
        [authenticated |-> TRUE, authMethod |-> "Voice", contextInfo |-> "",
         pinChecked |-> FALSE, pinResult |-> FALSE]
    ELSE
        [authenticated |-> pinResult, authMethod |-> "PIN", contextInfo |-> "",
         pinChecked |-> TRUE, pinResult |-> pinResult]

\* the 2 s limit of authenticateUser, in milliseconds
SlowAuthMs == 2000

AuthTimes == {SlowAuthMs, SlowAuthMs + 1}

NoAuth ==
    [userId |-> "", found |-> FALSE, voiceChecked |-> FALSE, envChecked |-> FALSE,
     pinChecked |-> FALSE, pinResult |-> FALSE, voiceAuth |-> FALSE,
     trustedEnvironment |-> FALSE, authenticated |-> FALSE, authMethod |-> "", contextInfo |-> "", report |-> "",
     duration |-> 0, slow |-> FALSE]

\* authenticateUser(userId), with nearby the value of the member nearbyDevices
authenticateUser(userId, nearby) ==
    IF ~userFound(userDatabase, userId) THEN
        /\ auth' = [NoAuth EXCEPT !.userId = userId, !.report = "NOT_FOUND"]
        /\ UNCHANGED userDatabase
    ELSE
        \E voiceAuth \in {authenticateVoice(r) : r \in UniformDraws},
           pinResult \in {verifyPIN(r) : r \in UniformDraws},
           d \in AuthTimes :
            LET db == MapIndex(userDatabase, userId, DefaultProfile)
                profile == db[userId]
                trustedEnvironment == isTrustedEnvironment(profile, nearby)
                o == authOutcome(voiceAuth, trustedEnvironment, pinResult)
            IN  /\ userDatabase' = db
                /\ auth' = [userId |-> userId, found |-> TRUE, voiceChecked |-> TRUE,
                            envChecked |-> TRUE, pinChecked |-> o.pinChecked,
                            pinResult |-> o.pinResult,
                            voiceAuth |-> voiceAuth,
                            trustedEnvironment |-> trustedEnvironment,
                            authenticated |-> o.authenticated,
                            authMethod |-> o.authMethod,
                            contextInfo |-> o.contextInfo,
                            report |-> IF o.authenticated THEN "AUTH_SUCCESS"
                                       ELSE "AUTH_FAILED",
                            duration |-> d, slow |-> d > SlowAuthMs]

\* the identifiers testUserAuthentication authenticates, in order
testUsers == <<"thabo", "matseliso", "ntate_john", "unknown_user">>

environments == <<"Home", "Office", "Public", "Unknown">>

\* the device scan testContextAwareness simulates for environment e
contextDevices(e) ==
    IF e = "Home" THEN <<"home_bt", "car_bt", "tv_system">>
    ELSE IF e = "Office" THEN <<"office_wifi", "printer_bt">>
    ELSE IF e = "Public" THEN <<"public_wifi", "unknown_device1">>
    ELSE <<"strange_device", "unknown_network">>

\* int attempts = 5 of stressTest
attempts == 5

\* default: of the switch of the biometric main
BioDefault == out' = "invalid" /\ UNCHANGED bioVars

\* case 1: testUserAuthentication scans and starts its four attempts
BioUserAuthStart ==
    /\ Read("biometric", 1)
    /\ nearbyDevices' = scanNearbyDevices
    /\ out' = "testUserAuthentication"
    /\ pc' = "userAuth"
    /\ idx' = 1
    /\ UNCHANGED <<exitCode, userDatabase, auth, successCount, connVars, voiceVars>>

BioUserAuthStep ==
    /\ prog = "biometric"
    /\ pc = "userAuth"
    /\ authenticateUser(testUsers[idx], nearbyDevices)
    /\ out' = "authenticateUser"
    /\ IF idx < Len(testUsers)
       THEN idx' = idx + 1 /\ UNCHANGED <<pc, exitCode>>
       ELSE AfterSwitch(choice)
    /\ UNCHANGED <<prog, choice, call, nearbyDevices, successCount, connVars, voiceVars>>

\* case 2: testContextAwareness prints its header and enters its loop
BioContextStart ==
    /\ Read("biometric", 2)
    /\ out' = "testContextAwareness"
    /\ pc' = "context"
    /\ idx' = 1
    /\ UNCHANGED <<exitCode, bioVars, connVars, voiceVars>>

\* one environment of testContextAwareness: set the scan, authenticate "thabo"
BioContextStep ==
    /\ prog = "biometric"
    /\ pc = "context"
    /\ nearbyDevices' = contextDevices(environments[idx])
    /\ authenticateUser("thabo", contextDevices(environments[idx]))
    /\ out' = "authenticateUser"
    /\ IF idx < Len(environments)
       THEN idx' = idx + 1 /\ UNCHANGED <<pc, exitCode>>
       ELSE AfterSwitch(choice)
    /\ UNCHANGED <<prog, choice, call, successCount, connVars, voiceVars>>

\* case 3: stressTest scans and starts its attempts with successCount = 0
BioStressStart ==
    /\ Read("biometric", 3)
    /\ nearbyDevices' = scanNearbyDevices
    /\ successCount' = 0
    /\ out' = "stressTest"
    /\ pc' = "stress"
    /\ idx' = 1
    /\ UNCHANGED <<exitCode, userDatabase, auth, connVars, voiceVars>>

\* one attempt of stressTest; the last one is followed by the results
BioStressStep ==
    /\ prog = "biometric"
    /\ pc = "stress"
    /\ \E success \in {quickAuthTest(r) : r \in UniformDraws} :
          successCount' = IF success THEN successCount + 1 ELSE successCount
    /\ IF idx < attempts
       THEN idx' = idx + 1 /\ out' = "quickAuthTest" /\ UNCHANGED <<pc, exitCode>>
       ELSE out' = "stressResults" /\ AfterSwitch(choice)
    /\ UNCHANGED <<prog, choice, call, userDatabase, nearbyDevices, auth, connVars,
                   voiceVars>>

BioInfo ==
    /\ Read("biometric", 4)
    /\ out' = "showWorkloadInfo"
    /\ AfterSwitch(4)
    /\ UNCHANGED <<bioVars, connVars, voiceVars>>

BioExit ==
    /\ Read("biometric", 5)
    /\ out' = "exit"
    /\ AfterSwitch(5)
    /\ UNCHANGED <<bioVars, connVars, voiceVars>>

BioInvalid ==
    /\ \E c \in Selections \ (1..5) :
          /\ Read("biometric", c)
          /\ AfterSwitch(c)
    /\ BioDefault
    /\ UNCHANGED <<connVars, voiceVars>>

BioNext ==
    \/ BioUserAuthStart
    \/ BioUserAuthStep
    \/ BioContextStart
    \/ BioContextStep
    \/ BioStressStart
    \/ BioStressStep
    \/ BioInfo
    \/ BioExit
    \/ BioInvalid

(***************************************************************************)
(* VoiceRecognitionSim                                                     *)
(***************************************************************************)

\* RESPONSE_THRESHOLD = 0.85f, in hundredths
RESPONSE_THRESHOLD == 85

\* the number of keyword models initializeKeywordModels builds
NumModels == 3

\* length of a keyword model and of a feature vector (256 in the source)
FeatureSize == 2

\* length of the audio buffer (BUFFER_SIZE = 1024 in the source)
BufferSize == 1

\* model i (1-based) holds FeatureSize copies of 0.1f * i, in tenths
initializeKeywordModels == [i \in 1..NumModels |-> [k \in 1..FeatureSize |-> i]]

\* samples of uniform_real_distribution<float>(-1.0f, 1.0f), in tenths
Samples == {-10, 9}

\* values of normal_distribution<float>(0.0f, 1.0f) the feature vector takes, in
\* tenths: one below, one at and one above what puts the first model at the threshold
FeatureVals == {0, 85, 90}

RECURSIVE dotLoop(_, _, _, _, _)
\* the loop of computeSimilarity from index i (1-based) to n, similarity so far sum
dotLoop(a, b, i, n, sum) ==
    IF i > n THEN sum ELSE dotLoop(a, b, i + 1, n, sum + a[i] * b[i])

\* mutant: the sign is kept (no std::abs)
computeSimilaritySigned(a, b) ==
    LET n == Min(Len(a), Len(b))
    IN  [num |-> dotLoop(a, b, 1, n, 0), den |-> n]

\* computeSimilarity(a, b): the quotient std::abs(similarity) / min(size) as
\* numerator (hundredths) and denominator
computeSimilarity(a, b) ==
    LET n == Min(Len(a), Len(b))
    IN  [num |-> Abs(dotLoop(a, b, 1, n, 0)), den |-> n]

\* mutant: a confidence equal to the threshold counts
exceedsOrEquals(confidence) ==
    confidence.den > 0 /\ confidence.num >= RESPONSE_THRESHOLD * confidence.den

\* confidence > RESPONSE_THRESHOLD; 0/0 compares false
exceeds(confidence) ==
    confidence.den > 0 /\ confidence.num > RESPONSE_THRESHOLD * confidence.den

RECURSIVE matchLoop(_, _, _)
\* the range-for of matchKeywords from model i on: the value returned and the
\* number of models whose similarity was computed
matchLoop(features, models, i) ==
    IF i > Len(models) THEN [detected |-> FALSE, examined |-> Len(models)]
    ELSE IF exceeds(computeSimilarity(features, models[i]))
         THEN [detected |-> TRUE, examined |-> i]
         ELSE matchLoop(features, models, i + 1)

matchKeywords(features, models) == matchLoop(features, models, 1)

\* int totalFrames = 8 of testRealTimeProcessing
totalFrames == 8

\* int tests = 10 of testKeywordDetection
tests == 10

\* the 100 ms limit of a frame, in milliseconds
FrameLimitMs == 100

FrameTimes == {FrameLimitMs, FrameLimitMs + 1}

\* the line printed for a frame or a test (the feature vector is a local that
\* the iteration discards)
NoFrame == [keywordDetected |-> FALSE, duration |-> 0, warning |-> FALSE]

\* simulateAudioCapture(): the buffer is cleared and refilled
simulateAudioCapture == audioBuffer' \in [1..BufferSize -> Samples]

\* the vectors extractFeatures() can return
extractFeatures == [1..FeatureSize -> FeatureVals]

\* default: of the switch of the voice main
VoiceDefault == out' = "invalid" /\ UNCHANGED voiceVars

\* case 1: testRealTimeProcessing sets latencyViolations = 0 and enters its loop
VoiceRealTimeStart ==
    /\ Read("voice", 1)
    /\ latencyViolations' = 0
    /\ detections' = 0
    /\ out' = "testRealTimeProcessing"
    /\ pc' = "realtime"
    /\ idx' = 1
    /\ UNCHANGED <<exitCode, keywordModels, audioBuffer, frame, connVars, bioVars>>

frameLoopGoesOnShort(processed) == processed < totalFrames - 1

\* for(frame = 0; frame < totalFrames; frame++), asked after the frame++ that
\* follows the processed-th frame
frameLoopGoesOn(processed) == processed < totalFrames

\* if(duration.count() > 100) of testRealTimeProcessing
latencyWarning(d) == d > FrameLimitMs

\* one frame of testRealTimeProcessing; the last one is followed by the results
VoiceRealTimeStep ==
    /\ prog = "voice"
    /\ pc = "realtime"
    /\ simulateAudioCapture
    /\ \E detected \in {matchKeywords(f, keywordModels).detected : f \in extractFeatures},
          d \in FrameTimes :
          /\ frame' = [keywordDetected |-> detected,
                       duration |-> d,
                       warning |-> latencyWarning(d)]
          /\ latencyViolations' = IF latencyWarning(d) THEN latencyViolations + 1
                                  ELSE latencyViolations
    /\ IF frameLoopGoesOn(idx)
       THEN idx' = idx + 1 /\ out' = "frame" /\ UNCHANGED <<pc, exitCode>>
       ELSE out' = "frameResults" /\ AfterSwitch(choice)
    /\ UNCHANGED <<prog, choice, call, keywordModels, detections, connVars, bioVars>>

\* case 2: testKeywordDetection sets detections = 0 and enters its loop
VoiceDetectionStart ==
    /\ Read("voice", 2)
    /\ detections' = 0
    /\ latencyViolations' = 0
    /\ out' = "testKeywordDetection"
    /\ pc' = "detection"
    /\ idx' = 1
    /\ UNCHANGED <<exitCode, keywordModels, audioBuffer, frame, connVars, bioVars>>

\* one test of testKeywordDetection; the last one is followed by the rate
VoiceDetectionStep ==
    /\ prog = "voice"
    /\ pc = "detection"
    /\ simulateAudioCapture
    /\ \E detected \in {matchKeywords(f, keywordModels).detected : f \in extractFeatures} :
              /\ frame' = [keywordDetected |-> detected, duration |-> 0,
                           warning |-> FALSE]
              /\ detections' = IF detected THEN detections + 1 ELSE detections
    /\ IF idx < tests
       THEN idx' = idx + 1 /\ out' = "test" /\ UNCHANGED <<pc, exitCode>>
       ELSE out' = "detectionRate" /\ AfterSwitch(choice)
    /\ UNCHANGED <<prog, choice, call, keywordModels, latencyViolations, connVars,
                   bioVars>>

VoiceInfo ==
    /\ Read("voice", 3)
    /\ out' = "showWorkloadInfo"
    /\ AfterSwitch(3)
    /\ UNCHANGED <<voiceVars, connVars, bioVars>>

VoiceExit ==
    /\ Read("voice", 4)
    /\ out' = "exit"
    /\ AfterSwitch(4)
    /\ UNCHANGED <<voiceVars, connVars, bioVars>>

VoiceInvalid ==
    /\ \E c \in Selections \ (1..4) :
          /\ Read("voice", c)
          /\ AfterSwitch(c)
    /\ VoiceDefault
    /\ UNCHANGED <<connVars, bioVars>>

VoiceNext ==
    \/ VoiceRealTimeStart
    \/ VoiceRealTimeStep
    \/ VoiceDetectionStart
    \/ VoiceDetectionStep
    \/ VoiceInfo
    \/ VoiceExit
    \/ VoiceInvalid

(***************************************************************************)
(* The programs                                                            *)
(***************************************************************************)

Programs == {"connectivity", "voice", "biometric"}

NoCall == [fn |-> "none", done |-> FALSE]

\* the members after the constructors have run
Constructed ==
    /\ trustedDevices = initializeTrustedDevices
    /\ policyRules = initializePolicies
    /\ env = NoEnv
    /\ battery = NoBattery
    /\ userDatabase = initializeUserDatabase
    /\ nearbyDevices = <<>>
    /\ auth = NoAuth
    /\ successCount = 0
    /\ keywordModels = initializeKeywordModels
    /\ audioBuffer = <<>>
    /\ frame = NoFrame
    /\ latencyViolations = 0
    /\ detections = 0

\* main up to its first displayMenu(); choice is not read before it is assigned
Init ==
    /\ prog \in Programs
    /\ pc = "menu"
    /\ choice = 0
    /\ exitCode = -1
    /\ out = "banner"
    /\ idx = 0
    /\ call = NoCall
    /\ Constructed

Next ==
    \/ ConnNext
    \/ VoiceNext
    \/ BioNext

Spec == Init /\ [][Next]_vars

(***************************************************************************)
(* Direct calls of the member functions: the initial state draws one call  *)
(* with its arguments, the action of that function carries it out on the   *)
(* constructed object.                                                     *)
(***************************************************************************)

\* longest device list drawn (besides every list scanDevices returns)
MaxDevices == 3

\* longest network list drawn
MaxNetworks == 2

\* longest float vector drawn
MaxVecLen == 2

\* location strings: the ones the program passes, "Test" among them
UnitLocations == Range(scenarios) \cup {"Test"}

\* location strings for scanNetworks: the above and strings no branch names
ScanLocations == UnitLocations \cup {"", "home", "Cellular_Data"}

\* device identifiers: the trusted ones and the ones scanDevices adds
DeviceNames ==
    Range(initializeTrustedDevices)
    \cup {"smart_tv", "printer_01", "unknown_device_1", "strange_bt_device"}

\* lists of at most n different identifiers
DistinctLists(n) ==
    UNION {{l \in [1..k -> DeviceNames] : \A i, j \in 1..k : l[i] = l[j] => i = j}
           : k \in 0..n}

\* every list scanDevices returns
ScannedLists == UNION {scanResults(l) : l \in UnitLocations}

\* network names: scanned ones and names that try the substring and equality tests
NetworkNames ==
    {"Cellular_Data", "Cellular_4G", "Office_Secure", "Office_Guest", "Home_WiFi_5G",
     "MySecureNet", "office_secure", "Cellular_Data_2"}

NetworkLists ==
    UNION {[1..k -> NetworkNames] : k \in 0..MaxNetworks}
    \cup {scanNetworks(l) : l \in UnitLocations}

\* vector elements in tenths
UnitVals == {-90, 0, 30, 85, 90}

Vectors == UNION {[1..k -> UnitVals] : k \in 0..MaxVecLen}

\* the calls drawn of each function, not yet carried out
EvaluateCalls(lists, locations) ==
    {[fn |-> "evaluateTrustLevel", done |-> FALSE, devices |-> d, location |-> l,
      count |-> 0, result |-> ""] : d \in lists, l \in locations}

ApplyCalls(tiers, locations) ==
    {[fn |-> "applyPolicy", done |-> FALSE, trustLevel |-> t, location |-> l,
      result |-> DefaultPolicy] : t \in tiers, l \in locations}

DecisionCalls(lists, tiers) ==
    {[fn |-> "makeConnectivityDecisions", done |-> FALSE, networks |-> n,
      policy |-> initializePolicies[t], result |-> <<>>] : n \in lists, t \in tiers}

ScanCalls(locations) ==
    {[fn |-> "scanNetworks", done |-> FALSE, location |-> l, result |-> <<>>]
     : l \in locations}

\* the values of the member nearbyDevices: the scans of the program, and none
NearbyLists ==
    {scanNearbyDevices, <<>>} \cup {contextDevices(e) : e \in Range(environments)}

NoOutcome ==
    [authenticated |-> FALSE, authMethod |-> "", contextInfo |-> "",
     pinChecked |-> FALSE, pinResult |-> FALSE]

\* two attempts of authenticateUser on one known user with the same results of
\* authenticateVoice and verifyPIN, under the nearby-device sets nearbyA, nearbyB
AuthCalls(users, lists) ==
    {[fn |-> "authenticateUser", done |-> FALSE, userId |-> u,
      nearbyA |-> a, nearbyB |-> b, voiceAuth |-> v, pinResult |-> p,
      trustedA |-> FALSE, trustedB |-> FALSE,
      resultA |-> NoOutcome, resultB |-> NoOutcome]
     : u \in users, a \in lists, b \in lists,
       v \in {authenticateVoice(r) : r \in UniformDraws},
       p \in {verifyPIN(r) : r \in UniformDraws}}

MatchCalls(vectors, sizes) ==
    {[fn |-> "matchKeywords", done |-> FALSE, features |-> f,
      models |-> SubSeq(initializeKeywordModels, 1, m),
      result |-> [detected |-> FALSE, examined |-> 0]] : f \in vectors, m \in sizes}

SimilarityCalls(vectors) ==
    {[fn |-> "computeSimilarity", done |-> FALSE, a |-> a, b |-> b,
      result |-> [num |-> 0, den |-> 0]] : a \in vectors, b \in vectors}

InitUnit ==
    /\ prog = "unit"
    /\ pc = "call"
    /\ choice = 0
    /\ exitCode = -1
    /\ out = ""
    /\ idx = 0
    /\ call \in EvaluateCalls(DistinctLists(MaxDevices) \cup ScannedLists, UnitLocations)
               \cup ApplyCalls(DOMAIN initializePolicies, UnitLocations)
               \cup DecisionCalls(NetworkLists, DOMAIN initializePolicies)
               \cup ScanCalls(ScanLocations)
               \cup AuthCalls(DOMAIN initializeUserDatabase, NearbyLists)
               \cup MatchCalls(Vectors, 0..NumModels)
               \cup SimilarityCalls(Vectors)
    /\ Constructed

Pending(fn) == call.fn = fn /\ ~call.done

DoEvaluateTrustLevel ==
    /\ Pending("evaluateTrustLevel")
    /\ call' = [call EXCEPT
                  !.done = TRUE,
                  !.count = trustedCount(call.devices, trustedDevices),
                  !.result = evaluateTrustLevel(call.devices, call.location,
                                                trustedDevices)]
    /\ UNCHANGED <<prog, pc, choice, exitCode, out, idx, connVars, bioVars, voiceVars>>

DoApplyPolicy ==
    /\ Pending("applyPolicy")
    /\ LET applied == applyPolicy(policyRules, call.trustLevel, call.location)
       IN  /\ policyRules' = applied.rules
           /\ call' = [call EXCEPT !.done = TRUE, !.result = applied.policy]
    /\ UNCHANGED <<prog, pc, choice, exitCode, out, idx, trustedDevices, env, battery,
                   bioVars, voiceVars>>

DoMakeConnectivityDecisions ==
    /\ Pending("makeConnectivityDecisions")
    /\ call' = [call EXCEPT
                  !.done = TRUE,
                  !.result = makeConnectivityDecisions(call.networks, call.policy)]
    /\ UNCHANGED <<prog, pc, choice, exitCode, out, idx, connVars, bioVars, voiceVars>>

DoScanNetworks ==
    /\ Pending("scanNetworks")
    /\ call' = [call EXCEPT !.done = TRUE, !.result = scanNetworks(call.location)]
    /\ UNCHANGED <<prog, pc, choice, exitCode, out, idx, connVars, bioVars, voiceVars>>

DoAuthenticateUser ==
    /\ Pending("authenticateUser")
    /\ userFound(userDatabase, call.userId)
    /\ LET profile == userDatabase[call.userId]
           trustedA == isTrustedEnvironment(profile, call.nearbyA)
           trustedB == isTrustedEnvironment(profile, call.nearbyB)
       IN  call' = [call EXCEPT
                      !.done = TRUE,
                      !.trustedA = trustedA,
                      !.trustedB = trustedB,
                      !.resultA = authOutcome(call.voiceAuth, trustedA, call.pinResult),
                      !.resultB = authOutcome(call.voiceAuth, trustedB, call.pinResult)]
    /\ UNCHANGED <<prog, pc, choice, exitCode, out, idx, connVars, bioVars, voiceVars>>

DoMatchKeywords ==
    /\ Pending("matchKeywords")
    /\ call' = [call EXCEPT !.done = TRUE,
                            !.result = matchKeywords(call.features, call.models)]
    /\ UNCHANGED <<prog, pc, choice, exitCode, out, idx, connVars, bioVars, voiceVars>>

DoComputeSimilarity ==
    /\ Pending("computeSimilarity")
    /\ call' = [call EXCEPT !.done = TRUE, !.result = computeSimilarity(call.a, call.b)]
    /\ UNCHANGED <<prog, pc, choice, exitCode, out, idx, connVars, bioVars, voiceVars>>

NextUnit ==
    \/ DoEvaluateTrustLevel
    \/ DoApplyPolicy
    \/ DoMakeConnectivityDecisions
    \/ DoScanNetworks
    \/ DoAuthenticateUser
    \/ DoMatchKeywords
    \/ DoComputeSimilarity

SpecUnit == InitUnit /\ [][NextUnit]_vars

(***************************************************************************)
(* Properties                                                              *)
(***************************************************************************)

TrustTiers == {"home_trusted", "public_trusted", "untrusted", "emergency"}

TrustedSet == {"home_wifi", "office_bt", "car_system", "personal_tablet"}

Returned(fn) == call.fn = fn /\ call.done

\* the number of entries of list l that are trusted identifiers
TrustedEntries(l) == Cardinality({i \in 1..Len(l) : l[i] \in TrustedSet})

\* C1: evaluateTrustLevel returns the tier of the first matching rule, in the
\* order Home with two trusted devices, Office with one, one trusted device
\* anywhere, Rural Area, otherwise untrusted; the result is one of the four tier
\* names, and {home_wifi, car_system} at Home gives home_trusted.
C1_TrustLevelRules ==
    Returned("evaluateTrustLevel") =>
        LET n == TrustedEntries(call.devices)
            l == call.location
            r == call.result
        IN  /\ r \in TrustTiers
            /\ (l = "Home" /\ n >= 2) => r = "home_trusted"
            /\ (l = "Office" /\ n >= 1) => r = "public_trusted"
            /\ (~(l = "Home" /\ n >= 2) /\ n >= 1) => r = "public_trusted"
            /\ (n = 0 /\ l = "Rural Area") => r = "emergency"
            /\ (n = 0 /\ l # "Rural Area") => r = "untrusted"
            /\ (call.devices = <<"home_wifi", "car_system">> /\ l = "Home")
                   => r = "home_trusted"

\* a trusted device seen in the Rural Area: the third rule wins over the fourth
C1_Witness ==
    /\ Returned("evaluateTrustLevel")
    /\ call.location = "Rural Area"
    /\ TrustedEntries(call.devices) = 1
    /\ call.result = "public_trusted"

\* C6: trustedCount is the size of the intersection of the device list with the
\* trusted-device set (device lists hold each identifier once).
C6_TrustedCountIsIntersection ==
    Returned("evaluateTrustLevel") =>
        call.count = Cardinality(Range(call.devices) \cap TrustedSet)

\* a list that starts with a trusted device and mixes both kinds
C6_Witness ==
    /\ Returned("evaluateTrustLevel")
    /\ Len(call.devices) = 3
    /\ call.devices[1] \in TrustedSet
    /\ call.devices[2] \notin TrustedSet
    /\ call.count = 2

\* the names drawn (NetworkNames and every scanned name) that contain "Secure"
\* or "Office"
SecuredNames == {"Office_Secure", "Office_Guest", "MySecureNet"}

\* the decision the specification gives network under security level
SpecDecision(network, level) ==
    CASE level = "LOW" -> "FULL"
      [] level = "MEDIUM" ->
            IF network \in SecuredNames THEN "LIMITED" ELSE "AVOID"
      [] level = "HIGH" -> IF network = "Cellular_Data" THEN "RESTRICTED" ELSE "BLOCKED"
      [] level = "CRITICAL" -> IF network = "Cellular_Data" THEN "EMERGENCY" ELSE "BLOCKED"

\* C2: makeConnectivityDecisions emits one decision per network, in input order,
\* fixed by the security level and the name: LOW FULL; MEDIUM LIMITED iff the
\* name contains "Secure" or "Office", else AVOID; HIGH RESTRICTED iff the name
\* is "Cellular_Data", else BLOCKED; CRITICAL EMERGENCY iff it is "Cellular_Data",
\* else BLOCKED.
C2_DecisionPerNetwork ==
    Returned("makeConnectivityDecisions") =>
        /\ Len(call.result) = Len(call.networks)
        /\ \A i \in 1..Len(call.networks) :
              /\ call.result[i].network = call.networks[i]
              /\ call.result[i].decision
                     = SpecDecision(call.networks[i], call.policy.securityLevel)

\* MEDIUM on a list where "Office" alone allows the first and nothing the second
C2_Witness ==
    /\ Returned("makeConnectivityDecisions")
    /\ call.policy.securityLevel = "MEDIUM"
    /\ call.networks = <<"Office_Guest", "office_secure">>
    /\ call.result[1].decision = "LIMITED"
    /\ call.result[2].decision = "AVOID"

\* the table of section 4.1
PolicyTable ==
    [t \in TrustTiers |->
        CASE t = "home_trusted" ->
                [securityLevel |-> "LOW", requirePIN |-> FALSE, dataLimit |-> 1000,
                 connectionType |-> "FULL_ACCESS"]
          [] t = "public_trusted" ->
                [securityLevel |-> "MEDIUM", requirePIN |-> TRUE, dataLimit |-> 500,
                 connectionType |-> "LIMITED_ACCESS"]
          [] t = "untrusted" ->
                [securityLevel |-> "HIGH", requirePIN |-> TRUE, dataLimit |-> 100,
                 connectionType |-> "RESTRICTED"]
          [] t = "emergency" ->
                [securityLevel |-> "CRITICAL", requirePIN |-> TRUE, dataLimit |-> 50,
                 connectionType |-> "EMERGENCY_ONLY"]]

\* C5: applyPolicy returns the fixed record of the tier, whatever the location.
C5_ApplyPolicyFixedRecord ==
    Returned("applyPolicy") =>
        /\ call.trustLevel \in TrustTiers
        /\ call.result = PolicyTable[call.trustLevel]

\* the untrusted tier applied away from Home
C5_Witness ==
    /\ Returned("applyPolicy")
    /\ call.trustLevel = "untrusted"
    /\ call.location = "Airport"
    /\ call.result.securityLevel = "HIGH"
    /\ call.result.dataLimit = 100

RECURSIVE SumProducts(_, _, _)
\* the sum of a[i] * b[i] for i in 1..k
SumProducts(a, b, k) == IF k = 0 THEN 0 ELSE a[k] * b[k] + SumProducts(a, b, k - 1)

\* whether the similarity of features and model is above 0.85
Above(features, model) ==
    LET n == Min(Len(features), Len(model))
    IN  n > 0 /\ Abs(SumProducts(features, model, n)) > 85 * n

\* whether the similarity of features and model is exactly 0.85
AtThreshold(features, model) ==
    LET n == Min(Len(features), Len(model))
    IN  n > 0 /\ Abs(SumProducts(features, model, n)) = 85 * n

\* C8: matchKeywords is true iff some model's similarity is strictly above 0.85;
\* models are examined in stored order and the first above it ends the search;
\* with none above it (or no model) the result is false.
C8_MatchAboveThreshold ==
    Returned("matchKeywords") =>
        LET above == {i \in 1..Len(call.models) : Above(call.features, call.models[i])}
        IN  /\ call.result.detected <=> above # {}
            /\ above # {} =>
                  /\ call.result.examined \in above
                  /\ \A i \in above : call.result.examined <= i
            /\ above = {} => call.result.examined = Len(call.models)

\* a model exactly at the threshold, none above it: not detected
C8_Witness ==
    /\ Returned("matchKeywords")
    /\ \E i \in 1..Len(call.models) : AtThreshold(call.features, call.models[i])
    /\ ~call.result.detected
    /\ call.result.examined = Len(call.models)

\* C9: computeSimilarity(a, b) is |sum of a[i]*b[i] below min(len)| / min(len);
\* it is never negative; for identical non-empty positive vectors it is
\* (sum of a[i]^2) / len(a); for all-zero vectors it is 0; elements past the
\* shorter length do not count.
C9_SimilarityFormula ==
    Returned("computeSimilarity") =>
        LET a == call.a
            b == call.b
            n == Min(Len(a), Len(b))
            r == call.result
        IN  /\ r.den = n
            /\ r.num = Abs(SumProducts(a, b, n))
            /\ r.num >= 0
            /\ (a = b /\ Len(a) > 0 /\ \A i \in 1..Len(a) : a[i] > 0)
                   => r.num = SumProducts(a, a, Len(a)) /\ r.den = Len(a)
            /\ (n > 0 /\ (\A i \in 1..Len(a) : a[i] = 0) /\ (\A i \in 1..Len(b) : b[i] = 0))
                   => r.num = 0 /\ r.den > 0
            /\ computeSimilarity(SubSeq(a, 1, n), SubSeq(b, 1, n)) = r

\* vectors of different lengths with a negative dot product
C9_Witness ==
    /\ Returned("computeSimilarity")
    /\ Len(call.a) = 1
    /\ Len(call.b) = 2
    /\ call.a[1] * call.b[1] < 0
    /\ call.result.num > 0
    /\ call.result.den = 1

UserKeys == {"thabo", "matseliso", "ntate_john"}

\* C3: an attempt on a known user reports exactly one method: "Voice", with
\* success, whenever voiceAuth holds (annotated "Trusted Environment" iff the
\* environment is trusted too); "PIN" when it does not, succeeding iff the PIN
\* check returns true.  The PIN check runs only when voiceAuth is false.
C3_OneMethodPerAttempt ==
    auth.found =>
        /\ auth.authMethod \in {"Voice", "PIN"}
        /\ auth.voiceChecked
        /\ auth.voiceAuth =>
              /\ auth.authMethod = "Voice"
              /\ auth.authenticated
              /\ auth.report = "AUTH_SUCCESS"
              /\ ~auth.pinChecked
              /\ (auth.contextInfo = " (Trusted Environment)") <=> auth.trustedEnvironment
              /\ ~auth.trustedEnvironment => auth.contextInfo = ""
        /\ ~auth.voiceAuth =>
              /\ auth.authMethod = "PIN"
              /\ auth.pinChecked
              /\ auth.authenticated <=> auth.pinResult
              /\ auth.report = (IF auth.pinResult THEN "AUTH_SUCCESS" ELSE "AUTH_FAILED")
              /\ auth.contextInfo = ""

\* the voice check passed outside a trusted environment
C3_Witness ==
    /\ auth.found
    /\ auth.voiceAuth
    /\ ~auth.trustedEnvironment
    /\ auth.authMethod = "Voice"
    /\ auth.authenticated

\* C4: authenticateUser on an identifier that is no key of the user database
\* reports "not found", runs none of the voice, environment and PIN checks,
\* reports no AUTH outcome and adds no entry; the program goes on (here: back
\* to the menu, the unknown user being the last attempt of its scenario).
C4_UnknownUserNotFound ==
    /\ DOMAIN userDatabase = UserKeys
    /\ (auth.userId # "" /\ auth.userId \notin UserKeys) =>
          /\ ~auth.found
          /\ auth.report = "NOT_FOUND"
          /\ ~auth.voiceChecked
          /\ ~auth.envChecked
          /\ ~auth.pinChecked
          /\ auth.authMethod = ""
          /\ ~auth.authenticated
    /\ (out = "authenticateUser" /\ auth.userId \notin UserKeys) =>
          /\ pc = "menu"
          /\ exitCode = -1

\* the attempt on "unknown_user" has just been reported
C4_Witness ==
    /\ out = "authenticateUser"
    /\ auth.userId = "unknown_user"
    /\ auth.report = "NOT_FOUND"
    /\ pc = "menu"

\* C7: the policy table always holds the four entries written at startup,
\* unchanged: applyPolicy neither inserts nor alters an entry, and it returns
\* the same fields for the same tier every time.
C7_PolicyTableUnchanged ==
    /\ DOMAIN policyRules = TrustTiers
    /\ \A t \in TrustTiers : policyRules[t] = PolicyTable[t]
    /\ env.trustLevel # "" =>
          /\ env.trustLevel \in TrustTiers
          /\ env.policy = PolicyTable[env.trustLevel]

\* the third environment of testMultipleScenarios has been decided
C7_Witness ==
    /\ pc = "multi"
    /\ idx = 4
    /\ env.location = "Public Cafe"
    /\ env.trustLevel = "untrusted"
    /\ env.policy.securityLevel = "HIGH"

\* the exit selection of each program, as section 6 and the menus give it
ExitOf(p) == CASE p = "connectivity" -> 7 [] p = "voice" -> 4 [] p = "biometric" -> 5

\* what an iteration of a menu loop does to pc, out and the objects, by selection
MenuStep ==
    pc = "menu" =>
        /\ choice' \notin 1..ExitOf(prog) =>
              /\ out' = "invalid"
              /\ pc' = "menu"
              /\ exitCode' = -1
              /\ UNCHANGED <<connVars, bioVars, voiceVars>>
        /\ choice' \in 1..(ExitOf(prog) - 1) => pc' # "done" /\ exitCode' = -1
        /\ choice' = ExitOf(prog) => pc' = "done" /\ exitCode' = 0 /\ out' = "exit"

\* a running scenario either takes its next iteration or is back in the menu
ScenarioStep ==
    pc \notin {"menu", "done"} =>
        /\ choice' = choice
        /\ exitCode' = -1
        /\ \/ pc' = pc /\ idx' = idx + 1
           \/ pc' = "menu" /\ idx' = 0

\* a running scenario has a next step, and its loop index is bounded (the longest
\* loop is the ten tests of testKeywordDetection)
ScenarioGoesOn ==
    pc \notin {"menu", "done"} => idx \in 1..10 /\ ENABLED Next

\* C10: in each program an out-of-range selection prints the invalid-option
\* message, runs no scenario, changes no state and shows the menu again; every
\* other selection but the exit one comes back to the menu (its scenario loop
\* counts up to its bound, never blocks and leaves only to the menu); the loop
\* ends, with exit code 0, exactly when the exit selection is read.
C10_MenuLoop ==
    /\ [][MenuStep /\ ScenarioStep]_vars
    /\ [](pc = "done" <=> exitCode = 0)
    /\ [](pc = "done" => choice = ExitOf(prog))
    /\ [](exitCode \in {-1, 0})
    /\ []ScenarioGoesOn

\* an out-of-range selection read after a scenario has run
C10_Witness ==
    /\ pc = "menu"
    /\ out = "invalid"
    /\ choice = 8
    /\ env.location = "Office"


\* C11: a duration above the limit only adds a warning.  testRealTimeProcessing
\* starts at frame 1 with no violation, every frame but the eighth is followed
\* by the next frame whatever its duration, the results follow the eighth frame
\* only, and latencyViolations counts exactly the frames above 100 ms, so it
\* stays between 0 and the number of frames processed (at most 8).  The record
\* of a testEnvironment run holds the decisions its location and scan fix, and
\* the record of an authentication holds the outcome its checks fix, whether
\* or not the duration was above the limit; the warning is set exactly above
\* the limit.
FrameStep ==
    /\ (pc # "realtime" /\ pc' = "realtime") =>
           (idx' = 1 /\ latencyViolations' = 0)
    /\ pc = "realtime" =>
        /\ frame'.warning = (frame'.duration > FrameLimitMs)
        /\ latencyViolations' = latencyViolations + (IF frame'.warning THEN 1 ELSE 0)
        /\ IF idx < totalFrames
           THEN pc' = "realtime" /\ idx' = idx + 1 /\ out' = "frame"
           ELSE pc' # "realtime" /\ out' = "frameResults"

FramesCounted ==
    /\ pc = "realtime" => (idx \in 1..totalFrames /\ latencyViolations \in 0..(idx - 1))
    /\ out = "frameResults" => latencyViolations \in 0..totalFrames

DurationOnlyWarns ==
    /\ env # NoEnv =>
        /\ env.slow = (env.duration > SlowDecisionUs)
        /\ env.networks = scanNetworks(env.location)
        /\ env.trustLevel = evaluateTrustLevel(env.devices, env.location, trustedDevices)
        /\ env.policy = applyPolicy(policyRules, env.trustLevel, env.location).policy
        /\ env.decisions = makeConnectivityDecisions(env.networks, env.policy)
    /\ auth.found =>
        /\ auth.slow = (auth.duration > SlowAuthMs)
        /\ LET o == authOutcome(auth.voiceAuth, auth.trustedEnvironment, auth.pinResult)
           IN  /\ auth.authenticated = o.authenticated
               /\ auth.authMethod = o.authMethod
               /\ auth.contextInfo = o.contextInfo
               /\ auth.report = IF o.authenticated THEN "AUTH_SUCCESS" ELSE "AUTH_FAILED"

C11_DurationOnlyWarns ==
    /\ [][FrameStep]_vars
    /\ []FramesCounted
    /\ []DurationOnlyWarns

\* all eight frames were above the limit and the results were still reached
C11_Witness ==
    /\ prog = "voice"
    /\ out = "frameResults"
    /\ frame.warning
    /\ latencyViolations = totalFrames


\* the devices scanDevices adds that are not in the trusted list
UntrustedScanned == {"unknown_device_1", "strange_bt_device", "smart_tv", "printer_01"}

WithoutUntrusted(devices) == SelectSeq(devices, LAMBDA d : d \notin UntrustedScanned)

\* C12: after every testEnvironment run the tier is fixed by the location:
\* "Home" gives home_trusted iff car_system was scanned and public_trusted
\* otherwise, "Office" gives public_trusted, "Public Cafe", "Shopping Mall"
\* and "Airport" give untrusted, "Rural Area" gives emergency; the tier is the
\* one the scan without its untrusted devices would give.
C12_TierByLocation ==
    env # NoEnv =>
        /\ env.location \in Range(scenarios)
        /\ env.devices \in scanResults(env.location)
        /\ env.location = "Home" =>
               env.trustLevel = IF "car_system" \in Range(env.devices)
                                THEN "home_trusted" ELSE "public_trusted"
        /\ env.location = "Office" => env.trustLevel = "public_trusted"
        /\ env.location \in {"Public Cafe", "Shopping Mall", "Airport"} =>
               env.trustLevel = "untrusted"
        /\ env.location = "Rural Area" => env.trustLevel = "emergency"
        /\ env.trustLevel = evaluateTrustLevel(WithoutUntrusted(env.devices),
                                               env.location, trustedDevices)

\* a "Home" run whose scan missed car_system and found both unknown devices
C12_Witness ==
    /\ env.location = "Home"
    /\ "car_system" \notin Range(env.devices)
    /\ {"smart_tv", "unknown_device_1", "strange_bt_device"} \subseteq Range(env.devices)
    /\ env.trustLevel = "public_trusted"


\* the decisions that let the user connect
Allowing == {"FULL", "LIMITED", "RESTRICTED", "EMERGENCY"}

\* C13: after every testEnvironment run at least one scanned network has an
\* allowing decision (FULL, LIMITED, RESTRICTED or EMERGENCY).
C13_SomeNetworkAllowed ==
    env # NoEnv =>
        \E i \in 1..Len(env.decisions) : env.decisions[i].decision \in Allowing

\* a "Home" run under the MEDIUM policy: every network, the cellular backup
\* included, is avoided
C13_AllAvoided ==
    /\ env.location = "Home"
    /\ env.policy.securityLevel = "MEDIUM"
    /\ Len(env.decisions) = 4
    /\ env.decisions[4].network = "Cellular_Data"
    /\ \A i \in 1..Len(env.decisions) : env.decisions[i].decision = "AVOID"


\* list l holds "Cellular_Data" exactly once, as its last element
CellularOnceLast(l) ==
    /\ Len(l) >= 1
    /\ {i \in 1..Len(l) : l[i] = "Cellular_Data"} = {Len(l)}

\* C14: scanNetworks returns, for every location string, a list that holds
\* "Cellular_Data" exactly once, as its last element; on such a list, under a
\* policy of level HIGH or CRITICAL, makeConnectivityDecisions allows exactly
\* one network, Cellular_Data (RESTRICTED under HIGH, EMERGENCY under
\* CRITICAL), and blocks every other one.
C14_CellularOnceAndOnlyAllowed ==
    /\ Returned("scanNetworks") => CellularOnceLast(call.result)
    /\ (/\ Returned("makeConnectivityDecisions")
        /\ CellularOnceLast(call.networks)
        /\ call.policy.securityLevel \in {"HIGH", "CRITICAL"}) =>
           LET r == call.result
               n == Len(call.networks)
           IN  /\ Len(r) = n
               /\ {i \in 1..n : r[i].decision \in Allowing} = {n}
               /\ r[n].network = "Cellular_Data"
               /\ r[n].decision = IF call.policy.securityLevel = "HIGH"
                                  THEN "RESTRICTED" ELSE "EMERGENCY"
               /\ \A i \in 1..(n - 1) : r[i].decision = "BLOCKED"

\* the "Rural Area" scan, whose other names start with "Cellular", decided
\* under CRITICAL
C14_Witness ==
    /\ Returned("makeConnectivityDecisions")
    /\ call.networks = scanNetworks("Rural Area")
    /\ call.networks = <<"Cellular_4G", "Cellular_3G", "Cellular_Data">>
    /\ call.policy.securityLevel = "CRITICAL"
    /\ call.result[3].decision = "EMERGENCY"


\* C15: two attempts on a known user with the same results of the voice check
\* and of the PIN check, under any two nearby-device sets, end with the same
\* success or failure and the same method and run the PIN check alike; they
\* differ at most in the " (Trusted Environment)" annotation, which only a
\* passed voice check in a trusted environment carries.  When the voice check
\* fails the PIN check runs and alone decides, trusted environment or not.
C15_OutcomeIgnoresNearby ==
    Returned("authenticateUser") =>
        LET a == call.resultA
            b == call.resultB
        IN  /\ a.authenticated = b.authenticated
            /\ a.authMethod = b.authMethod
            /\ a.pinChecked = b.pinChecked
            /\ a.pinResult = b.pinResult
            /\ a.contextInfo = (IF call.voiceAuth /\ call.trustedA
                                THEN " (Trusted Environment)" ELSE "")
            /\ b.contextInfo = (IF call.voiceAuth /\ call.trustedB
                                THEN " (Trusted Environment)" ELSE "")
            /\ ~call.voiceAuth =>
                   /\ a.pinChecked
                   /\ a.authMethod = "PIN"
                   /\ a.authenticated = call.pinResult

\* the voice and PIN checks both fail, in a trusted and in an untrusted environment
C15_Witness ==
    /\ Returned("authenticateUser")
    /\ call.trustedA
    /\ ~call.trustedB
    /\ ~call.voiceAuth
    /\ ~call.pinResult
    /\ ~call.resultA.authenticated
    /\ call.resultA.pinChecked

====
